---- MODULE Spec2Model ----
(***************************************************************************)
(* Model of aphrodite/worker/model_runner_base.py: the per-request         *)
(* generator registry of ModelRunnerBase and the helpers that move         *)
(* attention / sampling / frozen sub-records through a flat tensor_dict.   *)
(***************************************************************************)
EXTENDS Integers, Sequences, FiniteSets, TLC

\* ------------------------------------------------------------------ bounds
\* Number of torch.Generator objects callers create in one behaviour.
MaxGenerators == 3
\* Longest finished_request_ids list passed to get_generators.
MaxFinished == 2
\* Tensor-like values are Val(0) .. Val(MaxVal); Val(0) is the falsy one.
MaxVal == 1
\* Deepest wrapping of a frozen record in a record that declares the field
\* frozen_model_input.
MaxNesting == 1

Runners == {"R1", "R2"}
RequestIds == {"r1", "r2"}

\* ------------------------------------------------------------ python values
\* Optional[List[str]]: None, or a list of request ids.
NoneArg == [isNone |-> TRUE, items |-> <<>>]
ListArg(s) == [isNone |-> FALSE, items |-> s]

SeqsUpTo(S, n) == UNION {[1..k -> S] : k \in 0..n}

FinishedArgs == {NoneArg} \cup {ListArg(s) : s \in SeqsUpTo(RequestIds, MaxFinished)}

Items(arg) == {arg.items[i] : i \in 1..Len(arg.items)}

\* The names in a sequence of field names.
Range(seq) == {seq[i] : i \in 1..Len(seq)}

\* Python truthiness of an Optional[List]: None and [] are falsy.
Truthy(arg) == (~arg.isNone) /\ Len(arg.items) > 0

\* dict operations on functions with a finite domain of keys
EmptyDict == [k \in {} |-> 0]
DictPop(d, k) == [x \in (DOMAIN d) \ {k} |-> d[x]]
DictSet(d, k, v) == [x \in (DOMAIN d) \cup {k} |-> IF x = k THEN v ELSE d[x]]

\* None, a tensor-like or scalar value (0 is the falsy one), and an object
\* built by calling a class with keyword arguments.
None == [tag |-> "None"]
Val(n) == [tag |-> "val", v |-> n]
Obj(cls, kwargs) == [tag |-> "obj", cls |-> cls, kw |-> kwargs]

\* --------------------------------------------------------------- references
\* The only dict object the class creates: the class attribute.
ClassGenerators == "ModelRunnerBase.generators"
NoRef == "no reference"
\* The mapping a helper was passed as its tensor_dict parameter.
TensorDictArg == "tensor_dict"

VARIABLES
    generators,   \* the dict held by the class attribute: request id -> generator
    handle,       \* per runner: the reference its caller got from get_generators
    nextGen,      \* torch.Generator objects created so far
    call,         \* the latest operation: its arguments, pre-state and outcome
    reported,     \* request ids passed in finished_request_ids so far
    stale,        \* reported ids that no caller has seeded again since
    tensor_dict,  \* the flat mapping the helpers work on, in place
    stage,        \* "build" while it is assembled, "extract" once a helper popped,
                  \* "steps" once the frozen record built from it is in use
    last,         \* the latest helper call: arguments, pre-state and outcome
    held,         \* the frozen record the latest frozen extraction stored
    built         \* that record as its constructor returned it

vars == <<generators, handle, nextGen, call, reported, stale,
          tensor_dict, stage, last, held, built>>

\* `self.generators`: no code assigns the attribute on an instance, so the
\* lookup on every runner finds the class attribute.
self_generators(self) == ClassGenerators

\* The dict a reference denotes.
Deref(ref) == generators

\* The registry the runner `self` works on.
RegistryOf(self) == Deref(self_generators(self))

\* for request_id in finished_request_ids: self.generators.pop(request_id, None)
RECURSIVE pop_finished(_, _)
pop_finished(gens, ids) ==
    IF ids = <<>> THEN gens
    ELSE pop_finished(DictPop(gens, Head(ids)), Tail(ids))

\* get_generators with `pop(request_id)`: a missing id raises KeyError and
\* the loop stops there.
RECURSIVE pop_finished_strict(_, _)
pop_finished_strict(gens, ids) ==
    IF ids = <<>> THEN [generators |-> gens, raised |-> "none"]
    ELSE IF Head(ids) \notin DOMAIN gens
         THEN [generators |-> gens, raised |-> "KeyError"]
         ELSE pop_finished_strict(DictPop(gens, Head(ids)), Tail(ids))

get_generators_strict(self, gens, finished_request_ids) ==
    LET r == IF Truthy(finished_request_ids)
             THEN pop_finished_strict(gens, finished_request_ids.items)
             ELSE [generators |-> gens, raised |-> "none"]
    IN [generators |-> r.generators,
        ret |-> IF r.raised = "none" THEN self_generators(self) ELSE NoRef,
        raised |-> r.raised]

\* get_generators that returns before the cleanup.
get_generators_no_cleanup(self, gens, finished_request_ids) ==
    [generators |-> gens, ret |-> self_generators(self), raised |-> "none"]

\* get_generators that retires only the first listed id.
get_generators_first_only(self, gens, finished_request_ids) ==
    [generators |-> IF Truthy(finished_request_ids)
                    THEN DictPop(gens, Head(finished_request_ids.items))
                    ELSE gens,
     ret |-> self_generators(self), raised |-> "none"]

\* get_generators that empties the registry when any id is listed.
get_generators_clear_all(self, gens, finished_request_ids) ==
    [generators |-> IF Truthy(finished_request_ids) THEN EmptyDict ELSE gens,
     ret |-> self_generators(self), raised |-> "none"]

\* ModelRunnerBase.get_generators: the dict after the call, the reference
\* returned and the exception raised, if any.
get_generators(self, gens, finished_request_ids) ==
    [generators |-> IF Truthy(finished_request_ids)
                    THEN pop_finished(gens, finished_request_ids.items)
                    ELSE gens,
     ret |-> self_generators(self),
     raised |-> "none"]

\* ------------------------------------------------------------ record types
\* The attention backends and the metadata dataclass each one declares:
\* field names in declaration order, and the fields without a default.
Backends == {"FlashAttn"}
get_metadata_cls(attn_backend) == "FlashAttnMetadata"
metadata_fields(attn_backend) == <<"slot_mapping", "block_tables">>
metadata_required(attn_backend) == {"slot_mapping"}

\* The frozen model-input dataclasses passed as frozen_model_input_cls: one
\* for a single step, and one for several steps that wraps it in a field
\* named like the key the frozen helper stores under.
FrozenClasses == {"ModelInput", "StatefulModelInput"}
frozen_fields(cls) ==
    IF cls = "StatefulModelInput" THEN <<"frozen_model_input", "current_step">>
    ELSE <<"input_tokens", "attn_metadata", "sampling_metadata">>
frozen_required(cls) ==
    IF cls = "StatefulModelInput" THEN {} ELSE {"input_tokens"}

\* How many records declaring frozen_model_input are wrapped around a value.
RECURSIVE Nesting(_)
Nesting(val) ==
    IF val.tag = "obj" /\ "frozen_model_input" \in DOMAIN val.kw
    THEN 1 + Nesting(val.kw["frozen_model_input"])
    ELSE IF val.tag = "obj" /\ val.cls = "StatefulModelInput" THEN 1 ELSE 0

\* Calling a dataclass with keyword arguments: TypeError naming the missing
\* fields when a field without default is not passed, else the object.
Construct(cls, required, kwargs) ==
    IF required \subseteq DOMAIN kwargs
    THEN [raised |-> "none", missing |-> {}, obj |-> Obj(cls, kwargs)]
    ELSE [raised |-> "TypeError", missing |-> required \ DOMAIN kwargs, obj |-> None]

\* attn_backend.make_metadata(**kwargs)
make_metadata(attn_backend, kwargs) ==
    Construct(get_metadata_cls(attn_backend), metadata_required(attn_backend), kwargs)

\* attn_metadata.asdict_zerocopy(): every declared field with its value.
asdict_zerocopy(attn_metadata) == attn_metadata.kw

\* SamplingMetadata(seq_groups=..., selected_token_indices=..., ...)
SamplingMetadata(seq_groups, selected, categorized, num_prompts) ==
    Obj("SamplingMetadata",
        [f \in {"seq_groups", "selected_token_indices",
                "categorized_sample_indices", "num_prompts"} |->
            CASE f = "seq_groups" -> seq_groups
              [] f = "selected_token_indices" -> selected
              [] f = "categorized_sample_indices" -> categorized
              [] OTHER -> num_prompts])

\* ----------------------------------------------------------------- helpers
DictUpdate(d, e) ==
    [x \in (DOMAIN d) \cup (DOMAIN e) |-> IF x \in DOMAIN e THEN e[x] ELSE d[x]]

\* d.pop(k, None) as a value
DictGet(d, k) == IF k \in DOMAIN d THEN d[k] ELSE None

\* The loop with `if val:` in place of `if val is not None:`.
RECURSIVE pop_fields_truthy(_, _, _)
pop_fields_truthy(fields, td, kwargs) ==
    IF fields = <<>> THEN [tensor_dict |-> td, kwargs |-> kwargs]
    ELSE LET name == Head(fields)
             val == DictGet(td, name)
         IN pop_fields_truthy(Tail(fields), DictPop(td, name),
                              IF val /= None /\ val /= Val(0)
                              THEN DictSet(kwargs, name, val) ELSE kwargs)

\* The loop passing on every popped value, None included.
RECURSIVE pop_fields_keep_none(_, _, _)
pop_fields_keep_none(fields, td, kwargs) ==
    IF fields = <<>> THEN [tensor_dict |-> td, kwargs |-> kwargs]
    ELSE LET name == Head(fields)
         IN pop_fields_keep_none(Tail(fields), DictPop(td, name),
                                 IF name \in DOMAIN td
                                 THEN DictSet(kwargs, name, td[name]) ELSE kwargs)

\* The loop with tensor_dict.get in place of tensor_dict.pop.
RECURSIVE pop_fields_get(_, _, _)
pop_fields_get(fields, td, kwargs) ==
    IF fields = <<>> THEN [tensor_dict |-> td, kwargs |-> kwargs]
    ELSE LET name == Head(fields)
             val == DictGet(td, name)
         IN pop_fields_get(Tail(fields), td,
                           IF val /= None THEN DictSet(kwargs, name, val) ELSE kwargs)

\* for field in dataclasses.fields(cls):
\*     val = tensor_dict.pop(field.name, None)
\*     if val is not None: kwargs[field.name] = val
RECURSIVE pop_fields(_, _, _)
pop_fields(fields, td, kwargs) ==
    IF fields = <<>> THEN [tensor_dict |-> td, kwargs |-> kwargs]
    ELSE LET name == Head(fields)
             val == DictGet(td, name)
         IN pop_fields(Tail(fields), DictPop(td, name),
                       IF val /= None THEN DictSet(kwargs, name, val) ELSE kwargs)

\* The flattening helper storing the object whole under "attn_metadata".
add_attn_metadata_nested(td, attn_metadata) ==
    IF attn_metadata /= None
    THEN DictSet(td, "attn_metadata", attn_metadata)
    ELSE td

\* _add_attn_metadata_broadcastable_dict(tensor_dict, attn_metadata):
\* the mapping afterwards.
add_attn_metadata_broadcastable_dict(td, attn_metadata) ==
    IF attn_metadata /= None
    THEN DictUpdate(td, asdict_zerocopy(attn_metadata))
    ELSE td

\* The outcome of a helper that builds `made` from the popped fields and
\* stores it under `key`: the mapping afterwards, the exception if any.
StoreUnder(key, popped, made) ==
    IF made.raised /= "none"
    THEN [tensor_dict |-> popped.tensor_dict, raised |-> made.raised,
          missing |-> made.missing, returned |-> FALSE, ret |-> NoRef]
    ELSE [tensor_dict |-> DictSet(popped.tensor_dict, key, made.obj),
          raised |-> "none", missing |-> {}, returned |-> TRUE,
          ret |-> TensorDictArg]

\* The attention helper without `tensor_dict["attn_metadata"] = attn_metadata`.
init_attn_metadata_no_store(attn_backend, td) ==
    LET popped == pop_fields(metadata_fields(attn_backend), td, EmptyDict)
        made == make_metadata(attn_backend, popped.kwargs)
    IN [tensor_dict |-> popped.tensor_dict, raised |-> made.raised,
        missing |-> made.missing, returned |-> made.raised = "none",
        ret |-> IF made.raised = "none" THEN TensorDictArg ELSE NoRef]

\* _init_attn_metadata_from_tensor_dict(attn_backend, tensor_dict)
init_attn_metadata_from_tensor_dict(attn_backend, td) ==
    LET popped == pop_fields(metadata_fields(attn_backend), td, EmptyDict)
    IN StoreUnder("attn_metadata", popped, make_metadata(attn_backend, popped.kwargs))

\* The sampling helper with .get in place of .pop.
init_sampling_metadata_keep_key(td) ==
    LET selected_token_indices == DictGet(td, "selected_token_indices")
    IN [tensor_dict |->
            IF selected_token_indices /= None
            THEN DictSet(td, "sampling_metadata",
                         SamplingMetadata(None, selected_token_indices, None, Val(0)))
            ELSE td,
        raised |-> "none", missing |-> {}, returned |-> TRUE,
        ret |-> TensorDictArg]

\* The sampling helper without the `is not None` test.
init_sampling_metadata_always(td) ==
    [tensor_dict |->
        DictSet(DictPop(td, "selected_token_indices"), "sampling_metadata",
                SamplingMetadata(None, DictGet(td, "selected_token_indices"),
                                 None, Val(0))),
     raised |-> "none", missing |-> {}, returned |-> TRUE, ret |-> TensorDictArg]

\* The sampling helper storing its record under the attention helper's key.
init_sampling_metadata_wrong_key(td) ==
    LET selected_token_indices == DictGet(td, "selected_token_indices")
        rest == DictPop(td, "selected_token_indices")
    IN [tensor_dict |->
            IF selected_token_indices /= None
            THEN DictSet(rest, "attn_metadata",
                         SamplingMetadata(None, selected_token_indices, None, Val(0)))
            ELSE rest,
        raised |-> "none", missing |-> {}, returned |-> TRUE,
        ret |-> TensorDictArg]

\* _init_sampling_metadata_from_tensor_dict(tensor_dict)
init_sampling_metadata_from_tensor_dict(td) ==
    LET selected_token_indices == DictGet(td, "selected_token_indices")
        rest == DictPop(td, "selected_token_indices")
    IN [tensor_dict |->
            IF selected_token_indices /= None
            THEN DictSet(rest, "sampling_metadata",
                         SamplingMetadata(None, selected_token_indices, None, Val(0)))
            ELSE rest,
        raised |-> "none", missing |-> {}, returned |-> TRUE,
        ret |-> TensorDictArg]

\* The flattening helper writing the per-group state as well.
add_sampling_metadata_with_groups(td, sampling_metadata) ==
    IF sampling_metadata /= None
    THEN DictSet(DictSet(td, "selected_token_indices",
                         sampling_metadata.kw["selected_token_indices"]),
                 "seq_groups", sampling_metadata.kw["seq_groups"])
    ELSE td

\* _add_sampling_metadata_broadcastable_dict(tensor_dict, sampling_metadata)
add_sampling_metadata_broadcastable_dict(td, sampling_metadata) ==
    IF sampling_metadata /= None
    THEN DictSet(td, "selected_token_indices",
                 sampling_metadata.kw["selected_token_indices"])
    ELSE td

\* The frozen helper consuming every entry of the mapping, declared or not.
init_frozen_model_input_pop_all(frozen_model_input_cls, td) ==
    LET popped == pop_fields(frozen_fields(frozen_model_input_cls), td, EmptyDict)
    IN StoreUnder("frozen_model_input",
                  [tensor_dict |-> EmptyDict, kwargs |-> popped.kwargs],
                  Construct(frozen_model_input_cls,
                            frozen_required(frozen_model_input_cls), popped.kwargs))

\* _init_frozen_model_input_from_tensor_dict(frozen_model_input_cls, tensor_dict)
init_frozen_model_input_from_tensor_dict(frozen_model_input_cls, td) ==
    LET popped == pop_fields(frozen_fields(frozen_model_input_cls), td, EmptyDict)
    IN StoreUnder("frozen_model_input", popped,
                  Construct(frozen_model_input_cls,
                            frozen_required(frozen_model_input_cls), popped.kwargs))

\* ------------------------------------------------------- frozen records
\* Assignment to a field of a dataclass that is not frozen.
setattr_plain(obj, name, value) ==
    [obj |-> Obj(obj.cls, DictSet(obj.kw, name, value)), raised |-> "none",
     missing |-> {}, returned |-> TRUE, ret |-> NoRef]

\* obj.name = value on an instance of a @dataclass(frozen=True) class: the
\* generated __setattr__ raises and the object is as it was.
setattr_frozen(obj, name, value) ==
    [obj |-> obj, raised |-> "FrozenInstanceError",
     missing |-> {}, returned |-> FALSE, ret |-> NoRef]

\* ------------------------------------------------------- model execution
\* What one call of the model's forward does: returns, or raises.
ForwardOutcomes == {"none", "ValueError"}

\* A runner's execute_model that catches what forward raises and returns.
ModelRunner_execute_model_swallow(model_input, forward) ==
    [raised |-> "none", missing |-> {}, returned |-> TRUE, ret |-> NoRef,
     calls |-> 1, dumped |-> None]

\* execute_model of a runner that implements it: one call of forward; what
\* forward raises reaches the caller as the same kind of error, and the
\* input record is kept for inspection.
ModelRunner_execute_model(model_input, forward) ==
    [raised |-> forward, missing |-> {}, returned |-> forward = "none",
     ret |-> NoRef, calls |-> 1,
     dumped |-> IF forward = "none" THEN None ELSE model_input]

\* ------------------------------------------------- abstract operations
\* `raise NotImplementedError` as the whole body: nothing is returned and
\* neither the registry nor the mapping passed is touched.
RaiseNotImplemented(gens, td) ==
    [generators |-> gens, tensor_dict |-> td, raised |-> "NotImplementedError",
     missing |-> {}, returned |-> FALSE, ret |-> NoRef]

\* A body of `pass`: the call returns None.
ReturnNone(gens, td) ==
    [generators |-> gens, tensor_dict |-> td, raised |-> "none",
     missing |-> {}, returned |-> TRUE, ret |-> NoRef]

\* execute_model with an empty body.
execute_model_pass(gens, td) == ReturnNone(gens, td)

\* BroadcastableModelInput.as_broadcastable_tensor_dict(self)
as_broadcastable_tensor_dict(gens, td) == RaiseNotImplemented(gens, td)

\* BroadcastableModelInput.from_broadcasted_tensor_dict(cls, tensor_dict, attn_backend)
from_broadcasted_tensor_dict(gens, td) == RaiseNotImplemented(gens, td)

\* ModelRunnerInputBuilderBase.add_seq_group(self, seq_group_metadata)
add_seq_group(gens, td) == RaiseNotImplemented(gens, td)

\* ModelRunnerInputBuilderBase.build(self, *args, **kwargs)
build(gens, td) == RaiseNotImplemented(gens, td)

\* ModelRunnerBase.make_model_input_from_broadcasted_tensor_dict(self, tensor_dict)
make_model_input_from_broadcasted_tensor_dict(gens, td) == RaiseNotImplemented(gens, td)

\* ModelRunnerBase.prepare_model_input(self, seq_group_metadata_list, ...)
prepare_model_input(gens, td) == RaiseNotImplemented(gens, td)

\* ModelRunnerBase.execute_model(self, model_input, kv_caches, ...)
execute_model(gens, td) == RaiseNotImplemented(gens, td)

\* The registry of every runner, as a caller would see it now.
Registries == [r \in Runners |-> RegistryOf(r)]

NoCall == [op |-> "none", self |-> "none", fin |-> NoneArg, id |-> "none",
           pre |-> [r \in Runners |-> EmptyDict], ret |-> NoRef, raised |-> "none"]

InitOps == {"init_attn", "init_sampling", "init_frozen"}

NoPrev == [op |-> "none", cls |-> "none", arg |-> None]

\* A helper call record: the operation, its class or backend argument, its
\* object argument, the mapping before, the outcome, and, for an extraction,
\* the flattening call right before it; for a model execution, the number
\* of forward calls made and the input record kept for inspection.
HelperCall(op, cls, arg, pre, out) ==
    [op |-> op, cls |-> cls, arg |-> arg, pre |-> pre, gens |-> generators,
     raised |-> out.raised, missing |-> out.missing, returned |-> out.returned,
     ret |-> out.ret, calls |-> 0, dumped |-> None,
     prev |-> IF op \in InitOps /\ last.op \in {"add_attn", "add_sampling"}
              THEN [op |-> last.op, cls |-> last.cls, arg |-> last.arg]
              ELSE NoPrev]

Returned == [raised |-> "none", missing |-> {}, returned |-> TRUE, ret |-> NoRef]

NoHelperCall ==
    [op |-> "none", cls |-> "none", arg |-> None, pre |-> EmptyDict,
     gens |-> EmptyDict, raised |-> "none", missing |-> {}, returned |-> FALSE,
     ret |-> NoRef, calls |-> 0, dumped |-> None, prev |-> NoPrev]

Init ==
    /\ generators = EmptyDict
    /\ handle = [r \in Runners |-> NoRef]
    /\ nextGen = 0
    /\ call = NoCall
    /\ reported = {}
    /\ stale = {}
    /\ tensor_dict = EmptyDict
    /\ stage = "build"
    /\ last = NoHelperCall
    /\ held = None
    /\ built = None

frozen_vars == <<held, built>>
marshal_vars == <<tensor_dict, stage, last, held, built>>
registry_vars == <<generators, handle, nextGen, call, reported, stale>>

\* A caller runs self.get_generators(finished_request_ids).
GetGenerators(self, fin) ==
    LET r == get_generators(self, RegistryOf(self), fin) IN
    /\ generators' = r.generators
    /\ handle' = IF r.raised = "none" THEN [handle EXCEPT ![self] = r.ret] ELSE handle
    /\ call' = [op |-> "get_generators", self |-> self, fin |-> fin, id |-> "none",
                pre |-> Registries, ret |-> r.ret, raised |-> r.raised]
    /\ reported' = reported \cup Items(fin)
    /\ stale' = stale \cup Items(fin)
    /\ UNCHANGED <<nextGen, marshal_vars>>

\* The caller of `self` seeds a generator through the mapping it was handed:
\* generators[request_id] = torch.Generator().manual_seed(seed)
SeedGenerator(self, request_id) ==
    /\ handle[self] /= NoRef
    /\ nextGen < MaxGenerators
    /\ nextGen' = nextGen + 1
    /\ generators' = DictSet(Deref(handle[self]), request_id, nextGen + 1)
    /\ call' = [op |-> "seed", self |-> self, fin |-> NoneArg, id |-> request_id,
                pre |-> Registries, ret |-> NoRef, raised |-> "none"]
    /\ stale' = stale \ {request_id}
    /\ UNCHANGED <<handle, reported, marshal_vars>>

Next ==
    \/ \E self \in Runners, fin \in FinishedArgs : GetGenerators(self, fin)
    \/ \E self \in Runners, id \in RequestIds : SeedGenerator(self, id)

Spec == Init /\ [][Next]_vars

\* --------------------------------------------- the helpers' callers' inputs
\* Values a sender puts under a field key: None or a tensor-like value.
WireVals == {None} \cup {Val(n) : n \in 0..MaxVal}
\* Keys that arrive with any of these values.
FieldKeys == {"slot_mapping", "block_tables", "selected_token_indices"}
\* Keys that arrive with None or with one value.
OptionalKeys == {"input_tokens"}
\* Keys that arrive with one value only: an unrelated one, a sampling field
\* other than the selected indices, and the three under which the helpers
\* store what they build.
OtherKeys == {"virtual_engine", "seq_groups", "attn_metadata", "sampling_metadata",
              "frozen_model_input"}

\* The attention metadata objects a backend's builder can produce.
AttnValues(attn_backend) ==
    {Obj(get_metadata_cls(attn_backend),
         [f \in {"slot_mapping", "block_tables"} |->
             IF f = "slot_mapping" THEN s ELSE b]) :
        s \in WireVals \ {None}, b \in WireVals}

\* The sampling metadata objects of a driver: selected indices plus
\* per-sequence-group state.
SamplingValues ==
    {SamplingMetadata(g, sel, g, n) :
        g \in {None, Val(1)}, sel \in WireVals \ {None}, n \in {Val(1)}}

\* A caller starts a new, empty mapping.
NewTensorDict ==
    /\ tensor_dict' = EmptyDict
    /\ stage' = "build"
    /\ last' = NoHelperCall
    /\ held' = None
    /\ built' = None
    /\ UNCHANGED registry_vars

\* A caller stores an entry: tensor_dict[key] = val
SetKey(key, val) ==
    /\ stage = "build"
    /\ \/ key \in FieldKeys
       \/ key \in OptionalKeys /\ val = None
       \/ val = Val(1)
    /\ tensor_dict' = DictSet(tensor_dict, key, val)
    /\ last' = NoHelperCall
    /\ UNCHANGED <<stage, registry_vars, frozen_vars>>

AddAttnMetadata(attn_metadata) ==
    /\ stage \in {"build", "flatten"}
    /\ tensor_dict' = add_attn_metadata_broadcastable_dict(tensor_dict, attn_metadata)
    /\ stage' = "flatten"
    /\ last' = HelperCall("add_attn", "none", attn_metadata, tensor_dict, Returned)
    /\ UNCHANGED <<registry_vars, frozen_vars>>

AddSamplingMetadata(sampling_metadata) ==
    /\ stage \in {"build", "flatten"}
    /\ tensor_dict' =
         add_sampling_metadata_broadcastable_dict(tensor_dict, sampling_metadata)
    /\ stage' = "flatten"
    /\ last' = HelperCall("add_sampling", "none", sampling_metadata, tensor_dict,
                          Returned)
    /\ UNCHANGED <<registry_vars, frozen_vars>>

InitAttnMetadata(attn_backend) ==
    LET out == init_attn_metadata_from_tensor_dict(attn_backend, tensor_dict) IN
    /\ stage \in {"build", "flatten", "extract"}
    /\ tensor_dict' = out.tensor_dict
    /\ stage' = "extract"
    /\ last' = HelperCall("init_attn", attn_backend, None, tensor_dict, out)
    /\ UNCHANGED <<registry_vars, frozen_vars>>

InitSamplingMetadata ==
    LET out == init_sampling_metadata_from_tensor_dict(tensor_dict) IN
    /\ stage \in {"build", "flatten", "extract"}
    /\ tensor_dict' = out.tensor_dict
    /\ stage' = "extract"
    /\ last' = HelperCall("init_sampling", "none", None, tensor_dict, out)
    /\ UNCHANGED <<registry_vars, frozen_vars>>

InitFrozenModelInput(frozen_model_input_cls) ==
    LET out == init_frozen_model_input_from_tensor_dict(frozen_model_input_cls,
                                                        tensor_dict) IN
    /\ stage \in {"build", "flatten", "extract"}
    /\ "frozen_model_input" \in Range(frozen_fields(frozen_model_input_cls)) =>
          /\ DictGet(tensor_dict, "frozen_model_input").tag = "obj"
          /\ Nesting(tensor_dict["frozen_model_input"]) < MaxNesting
    /\ tensor_dict' = out.tensor_dict
    /\ stage' = "extract"
    /\ last' = HelperCall("init_frozen", frozen_model_input_cls, None, tensor_dict, out)
    /\ held' = IF out.returned THEN out.tensor_dict["frozen_model_input"] ELSE held
    /\ built' = IF out.returned THEN out.tensor_dict["frozen_model_input"] ELSE built
    /\ UNCHANGED registry_vars

\* A call of an abstract operation in its base form; the error is never
\* caught, so nothing runs on this mapping afterwards.
CallAbstract(op, out) ==
    /\ stage \in {"build", "flatten", "extract"}
    /\ generators' = out.generators
    /\ tensor_dict' = out.tensor_dict
    /\ stage' = IF out.raised = "none" THEN stage ELSE "failed"
    /\ last' = [op |-> op, cls |-> "none", arg |-> None, pre |-> tensor_dict,
                gens |-> generators, raised |-> out.raised, missing |-> out.missing,
                returned |-> out.returned, ret |-> out.ret, calls |-> 0,
                dumped |-> None, prev |-> NoPrev]
    /\ UNCHANGED <<handle, nextGen, call, reported, stale, frozen_vars>>

AsBroadcastableTensorDict ==
    CallAbstract("as_broadcastable_tensor_dict",
                 as_broadcastable_tensor_dict(generators, tensor_dict))

FromBroadcastedTensorDict ==
    CallAbstract("from_broadcasted_tensor_dict",
                 from_broadcasted_tensor_dict(generators, tensor_dict))

AddSeqGroup == CallAbstract("add_seq_group", add_seq_group(generators, tensor_dict))

Build == CallAbstract("build", build(generators, tensor_dict))

MakeModelInputFromBroadcastedTensorDict ==
    CallAbstract("make_model_input_from_broadcasted_tensor_dict",
                 make_model_input_from_broadcasted_tensor_dict(generators, tensor_dict))

PrepareModelInput ==
    CallAbstract("prepare_model_input", prepare_model_input(generators, tensor_dict))

ExecuteModel == CallAbstract("execute_model", execute_model(generators, tensor_dict))

\* The frozen record is in use: the frozen helper has just returned it, or
\* steps on it are under way.
InSteps ==
    /\ held /= None
    /\ \/ stage = "extract" /\ last.op = "init_frozen" /\ last.returned
       \/ stage = "steps"

\* Keys a caller rewrites between steps.
StepKeys == {"current_step"}

\* Between two steps the caller stores an entry: tensor_dict[key] = val
SetStepKey(key, val) ==
    /\ InSteps
    /\ tensor_dict' = DictSet(tensor_dict, key, val)
    /\ stage' = "steps"
    /\ last' = HelperCall("set_step", key, val, tensor_dict, Returned)
    /\ UNCHANGED <<registry_vars, frozen_vars>>

\* A caller assigns to a field of the frozen record: held.name = Val(0).
\* The mapping entry that is this record shows what the assignment did.
AssignFrozenField(name) ==
    LET out == setattr_frozen(held, name, Val(0)) IN
    /\ InSteps
    /\ name \in Range(frozen_fields(held.cls))
    /\ held' = out.obj
    /\ tensor_dict' = [k \in DOMAIN tensor_dict |->
                          IF tensor_dict[k] = held THEN out.obj ELSE tensor_dict[k]]
    /\ stage' = "steps"
    /\ last' = HelperCall("setattr", name, Val(0), tensor_dict, out)
    /\ UNCHANGED <<registry_vars, built>>

\* A runner that implements execute_model runs the frozen record; an error
\* is not caught, so nothing runs on this mapping afterwards.
RunModel(forward) ==
    LET out == ModelRunner_execute_model(held, forward) IN
    /\ InSteps
    /\ stage' = IF out.raised = "none" THEN "steps" ELSE "failed"
    /\ last' = [HelperCall("run_model", forward, held, tensor_dict, out)
                   EXCEPT !.calls = out.calls, !.dumped = out.dumped]
    /\ UNCHANGED <<tensor_dict, registry_vars, frozen_vars>>

AbstractOps == {"as_broadcastable_tensor_dict", "from_broadcasted_tensor_dict",
                "add_seq_group", "build",
                "make_model_input_from_broadcasted_tensor_dict",
                "prepare_model_input", "execute_model"}

\* A registry with one seeded request while the helpers run.
InitMarshal ==
    /\ generators = [id \in {"r1"} |-> 1]
    /\ handle = [r \in Runners |-> NoRef]
    /\ nextGen = 1
    /\ call = NoCall
    /\ reported = {}
    /\ stale = {}
    /\ tensor_dict = EmptyDict
    /\ stage = "build"
    /\ last = NoHelperCall
    /\ held = None
    /\ built = None

NextMarshal ==
    \/ NewTensorDict
    \/ \E key \in FieldKeys \cup OptionalKeys \cup OtherKeys, val \in WireVals :
          SetKey(key, val)
    \/ \E b \in Backends : \E m \in AttnValues(b) \cup {None} : AddAttnMetadata(m)
    \/ \E s \in SamplingValues \cup {None} : AddSamplingMetadata(s)
    \/ \E b \in Backends : InitAttnMetadata(b)
    \/ InitSamplingMetadata
    \/ \E cls \in FrozenClasses : InitFrozenModelInput(cls)
    \/ AsBroadcastableTensorDict
    \/ FromBroadcastedTensorDict
    \/ AddSeqGroup
    \/ Build
    \/ MakeModelInputFromBroadcastedTensorDict
    \/ PrepareModelInput
    \/ ExecuteModel
    \/ \E key \in StepKeys, n \in 0..MaxVal : SetStepKey(key, Val(n))
    \/ \E name \in {"input_tokens", "attn_metadata", "frozen_model_input"} :
          AssignFrozenField(name)
    \/ \E forward \in ForwardOutcomes : RunModel(forward)

SpecMarshal == InitMarshal /\ [][NextMarshal]_vars

\* ------------------------------------------------- claims on the registry
IsGet == call.op = "get_generators"

\* C1 (as claimed): the registry never holds an entry for a request id that
\* an earlier get_generators call listed in finished_request_ids.
C1_NeverAfterFinished ==
    \A r \in Runners : \A id \in reported : id \notin DOMAIN RegistryOf(r)

\* C1 (amended): the registry never holds an entry for a request id that an
\* earlier get_generators call listed in finished_request_ids, unless a caller
\* has seeded that id again after that call.
C1_NoStaleEntry ==
    \A r \in Runners : \A id \in stale : id \notin DOMAIN RegistryOf(r)

\* A get_generators call has just removed an entry that was in the registry.
C1_Witness ==
    /\ IsGet
    /\ \E id \in Items(call.fin) : id \in DOMAIN call.pre[call.self]

\* C2: an operation through one runner (a get_generators call or a seeding
\* through the mapping it returned) never adds, removes or changes an entry
\* of the registry of another runner.
C2_OwnedByOneRunner ==
    call.op \in {"get_generators", "seed"} =>
        \A other \in Runners \ {call.self} : RegistryOf(other) = call.pre[other]

\* C3: get_generators cleans up before it hands out the registry and hands
\* it out by reference: the mapping returned lacks every listed id, it is the
\* runner's one registry on every call, and every entry that callers wrote
\* into it before the call and that the call does not list is in it, with
\* the generator written.
C3_CleanupThenLiveReference ==
    IsGet =>
        /\ call.raised = "none"
        /\ call.ret = self_generators(call.self)
        /\ \A r \in Runners : handle[r] \in {NoRef, self_generators(r)}
        /\ Items(call.fin) \cap DOMAIN Deref(call.ret) = {}
        /\ \A id \in (DOMAIN call.pre[call.self]) \ Items(call.fin) :
              /\ id \in DOMAIN Deref(call.ret)
              /\ Deref(call.ret)[id] = call.pre[call.self][id]

\* An id was reported finished, a caller seeded it again through the mapping
\* returned, and a later get_generators call that does not list it found it;
\* that call also retired another entry.
C3_Witness ==
    /\ IsGet
    /\ \E id \in reported \ Items(call.fin) : id \in DOMAIN Deref(call.ret)
    /\ \E id \in Items(call.fin) : id \in DOMAIN call.pre[call.self]

\* C4: get_generators never fails, whatever ids are listed (missing ones,
\* repeated ones); a second call with the same list changes nothing; with []
\* or None on an empty registry the registry stays empty.
C4_IdempotentRemoval ==
    IsGet =>
        LET again == get_generators(call.self, RegistryOf(call.self), call.fin) IN
        /\ call.raised = "none"
        /\ again.raised = "none"
        /\ again.generators = RegistryOf(call.self)
        /\ (call.pre[call.self] = EmptyDict /\ ~Truthy(call.fin))
              => RegistryOf(call.self) = EmptyDict

\* A call listed the same present id twice together with nothing else, so
\* the second pop met a missing id.
C4_Witness ==
    /\ IsGet
    /\ Len(call.fin.items) = 2
    /\ call.fin.items[1] = call.fin.items[2]
    /\ call.fin.items[1] \in DOMAIN call.pre[call.self]

\* ---------------------------------------------- claims on the flat mapping
Restrict(d, keys) == [k \in (DOMAIN d) \cap keys |-> d[k]]
NonNone(d) == [k \in {x \in DOMAIN d : d[x] /= None} |-> d[k]]

SamplingFields == {"seq_groups", "selected_token_indices",
                   "categorized_sample_indices", "num_prompts"}
\* The declared field names of the record a helper call builds.
Declared(op, cls) ==
    CASE op = "init_attn" -> Range(metadata_fields(cls))
      [] op = "init_sampling" -> SamplingFields
      [] OTHER -> Range(frozen_fields(cls))

\* The key a helper stores its record under.
OwnKey(op) ==
    CASE op = "init_attn" -> "attn_metadata"
      [] op = "init_sampling" -> "sampling_metadata"
      [] OTHER -> "frozen_model_input"

\* The same helper call on another mapping.
Rerun(op, cls, td) ==
    CASE op = "init_attn" -> init_attn_metadata_from_tensor_dict(cls, td)
      [] op = "init_sampling" -> init_sampling_metadata_from_tensor_dict(td)
      [] OTHER -> init_frozen_model_input_from_tensor_dict(cls, td)

\* C5: flattening an attention metadata object into a mapping and extracting
\* with the same backend stores under "attn_metadata" an object built from
\* exactly its non-None fields, with equal values; flattening a sampling
\* metadata object and extracting stores under "sampling_metadata" an object
\* with the same selected_token_indices.
C5_RoundTrip ==
    /\ (/\ last.op = "init_attn"
        /\ last.prev.op = "add_attn"
        /\ last.prev.arg /= None
        /\ last.prev.arg.cls = get_metadata_cls(last.cls))
       => /\ last.returned
          /\ "attn_metadata" \in DOMAIN tensor_dict
          /\ tensor_dict["attn_metadata"]
               = Obj(get_metadata_cls(last.cls), NonNone(last.prev.arg.kw))
    /\ (/\ last.op = "init_sampling"
        /\ last.prev.op = "add_sampling"
        /\ last.prev.arg /= None)
       => /\ last.returned
          /\ "sampling_metadata" \in DOMAIN tensor_dict
          /\ tensor_dict["sampling_metadata"].kw["selected_token_indices"]
               = last.prev.arg.kw["selected_token_indices"]

\* An attention metadata object with a falsy required field and a None
\* optional field went through the round trip.
C5_Witness ==
    /\ last.op = "init_attn"
    /\ last.prev.op = "add_attn"
    /\ last.prev.arg /= None
    /\ last.prev.arg.kw["slot_mapping"] = Val(0)
    /\ last.prev.arg.kw["block_tables"] = None
    /\ last.returned

\* C6: when a field without default of the target record is absent from the
\* mapping, or present with None, the attention and the frozen helper raise
\* the construction error naming that field, return nothing, and store no
\* record under "attn_metadata" / "frozen_model_input".
C6_MissingRequiredFieldRaises ==
    \A op \in {"init_attn", "init_frozen"} :
        LET required == IF op = "init_attn" THEN metadata_required(last.cls)
                        ELSE frozen_required(last.cls)
            absent == {f \in required : DictGet(last.pre, f) = None}
        IN (last.op = op /\ absent /= {}) =>
              /\ last.raised = "TypeError"
              /\ ~last.returned
              /\ last.missing = absent
              /\ OwnKey(op) \in DOMAIN tensor_dict =>
                    /\ OwnKey(op) \in DOMAIN last.pre
                    /\ tensor_dict[OwnKey(op)] = last.pre[OwnKey(op)]

\* The attention helper met its required field present with the value None.
C6_Witness ==
    /\ last.op = "init_attn"
    /\ "slot_mapping" \in DOMAIN last.pre
    /\ last.pre["slot_mapping"] = None
    /\ last.raised = "TypeError"

\* Whether a helper call fails or returns, and the record it stores, are the
\* same as on the mapping without its undeclared entries.
IgnoresExtraKeys ==
    LET bare == Rerun(last.op, last.cls,
                      Restrict(last.pre, Declared(last.op, last.cls)))
    IN /\ bare.raised = last.raised
       /\ OwnKey(last.op) \in DOMAIN bare.tensor_dict =>
             /\ OwnKey(last.op) \in DOMAIN tensor_dict
             /\ tensor_dict[OwnKey(last.op)] = bare.tensor_dict[OwnKey(last.op)]

\* C7 (as claimed): a helper ignores the entries whose key is no declared
\* field of its target record, and each of them is in the mapping with its
\* value unchanged after the helper returns.
C7_ExtraKeysKept ==
    (last.op \in InitOps /\ last.returned) =>
        /\ IgnoresExtraKeys
        /\ \A k \in (DOMAIN last.pre) \ Declared(last.op, last.cls) :
              k \in DOMAIN tensor_dict /\ tensor_dict[k] = last.pre[k]

\* C7 (amended): a helper ignores the entries whose key is no declared field
\* of its target record, and each of them, except an entry under the key the
\* helper stores its own record under, is in the mapping with its value
\* unchanged after the helper returns.
C7_ExtraKeysKeptExceptOwnKey ==
    (last.op \in InitOps /\ last.returned) =>
        /\ IgnoresExtraKeys
        /\ \A k \in (DOMAIN last.pre) \ (Declared(last.op, last.cls) \cup {OwnKey(last.op)}) :
              k \in DOMAIN tensor_dict /\ tensor_dict[k] = last.pre[k]

\* The frozen helper returned on a mapping that also held an unrelated key
\* and the record of another helper.
C7_Witness ==
    /\ last.op = "init_frozen"
    /\ last.returned
    /\ {"virtual_engine", "frozen_model_input"} \subseteq DOMAIN last.pre
    /\ "virtual_engine" \in DOMAIN tensor_dict

\* C8: when "selected_token_indices" is in the mapping with a value other
\* than None, the sampling helper returns, whatever else the mapping holds,
\* and stores under "sampling_metadata" an object with exactly that value as
\* selected_token_indices, seq_groups and categorized_sample_indices None and
\* num_prompts 0; "selected_token_indices" is no longer a key.
C8_SamplingShortcut ==
    (last.op = "init_sampling" /\ DictGet(last.pre, "selected_token_indices") /= None) =>
        /\ last.returned
        /\ "sampling_metadata" \in DOMAIN tensor_dict
        /\ LET sm == tensor_dict["sampling_metadata"] IN
           /\ sm.cls = "SamplingMetadata"
           /\ DOMAIN sm.kw = SamplingFields
           /\ sm.kw["selected_token_indices"] = last.pre["selected_token_indices"]
           /\ sm.kw["seq_groups"] = None
           /\ sm.kw["categorized_sample_indices"] = None
           /\ sm.kw["num_prompts"] = Val(0)
        /\ "selected_token_indices" \notin DOMAIN tensor_dict

\* The sampling helper ran on a mapping with the selected indices, another
\* sampling field and no attention fields.
C8_Witness ==
    /\ last.op = "init_sampling"
    /\ DictGet(last.pre, "selected_token_indices") = Val(1)
    /\ "seq_groups" \in DOMAIN last.pre
    /\ "slot_mapping" \notin DOMAIN last.pre

\* C9: flattening sampling metadata writes the key "selected_token_indices"
\* and nothing else, so two sampling metadata objects with the same selected
\* indices give the same mapping whatever their per-group state; with None
\* the mapping is unchanged.
C9_OnlySelectedIndicesSurvive ==
    last.op = "add_sampling" =>
        IF last.arg = None THEN tensor_dict = last.pre
        ELSE /\ DOMAIN tensor_dict = (DOMAIN last.pre) \cup {"selected_token_indices"}
             /\ \A k \in (DOMAIN last.pre) \ {"selected_token_indices"} :
                   tensor_dict[k] = last.pre[k]
             /\ \A other \in SamplingValues :
                   other.kw["selected_token_indices"]
                       = last.arg.kw["selected_token_indices"]
                   => add_sampling_metadata_broadcastable_dict(last.pre, other)
                        = tensor_dict

\* Sampling metadata with per-group state was flattened into a mapping that
\* already held other entries.
C9_Witness ==
    /\ last.op = "add_sampling"
    /\ last.arg /= None
    /\ last.arg.kw["seq_groups"] /= None
    /\ {"slot_mapping", "virtual_engine"} \subseteq DOMAIN last.pre

\* C10: each abstract operation called in its base form ends in
\* NotImplementedError, returns nothing, and leaves the generator registry
\* and the mapping passed as they were.
C10_AbstractOperationsRaise ==
    last.op \in AbstractOps =>
        /\ last.raised = "NotImplementedError"
        /\ ~last.returned
        /\ generators = last.gens
        /\ tensor_dict = last.pre

\* execute_model was called with a registry entry and a non-empty mapping.
C10_Witness ==
    /\ last.op = "execute_model"
    /\ DOMAIN generators /= {}
    /\ DOMAIN last.pre /= {}

\* ------------------------------------------- frame of get_generators
\* C14: get_generators(finished_request_ids) removes the listed ids and
\* nothing else: every entry whose id is not listed is in the registry after
\* the call with the very same generator, no entry is added, and with [] or
\* None the registry is as it was.
C14_RemovesOnlyListed ==
    IsGet =>
        LET before == call.pre[call.self]
            after == RegistryOf(call.self)
        IN /\ DOMAIN after = (DOMAIN before) \ Items(call.fin)
           /\ \A id \in (DOMAIN before) \ Items(call.fin) : after[id] = before[id]
           /\ ~Truthy(call.fin) => after = before

\* A call retired one of two seeded requests and the other one stayed.
C14_Witness ==
    /\ IsGet
    /\ \E gone \in Items(call.fin) \cap DOMAIN call.pre[call.self] :
          \E kept \in (DOMAIN call.pre[call.self]) \ Items(call.fin) :
              kept \in DOMAIN RegistryOf(call.self)

\* ------------------------------------------ frame of the attention flattening
\* C15: _add_attn_metadata_broadcastable_dict sets, for every field of the
\* object's zero-copy field mapping, the top-level key of that name to the
\* field's value, replacing what was there; it adds no other key and leaves
\* every other entry as it was; with None the mapping is unchanged.
C15_AddAttnWritesOnlyFields ==
    last.op = "add_attn" =>
        IF last.arg = None THEN tensor_dict = last.pre
        ELSE LET fields == asdict_zerocopy(last.arg) IN
             /\ DOMAIN tensor_dict = (DOMAIN last.pre) \cup DOMAIN fields
             /\ \A f \in DOMAIN fields : tensor_dict[f] = fields[f]
             /\ \A k \in (DOMAIN last.pre) \ DOMAIN fields :
                   tensor_dict[k] = last.pre[k]

\* Attention metadata was flattened into a mapping that held another value
\* under one of its field names and an unrelated entry.
C15_Witness ==
    /\ last.op = "add_attn"
    /\ last.arg /= None
    /\ "slot_mapping" \in DOMAIN last.pre
    /\ last.pre["slot_mapping"] /= last.arg.kw["slot_mapping"]
    /\ "virtual_engine" \in DOMAIN last.pre
    /\ "attn_metadata" \notin DOMAIN tensor_dict

\* ------------------------------------- sampling extraction with no indices
\* C17: when the mapping has no "selected_token_indices" key, or has it with
\* None, the sampling helper returns without error and builds nothing: the
\* key "sampling_metadata" is neither added nor changed, "selected_token_indices"
\* is no longer a key, and every other entry is as it was.
C17_NoIndicesNoSamplingMetadata ==
    (last.op = "init_sampling" /\ DictGet(last.pre, "selected_token_indices") = None) =>
        /\ last.returned
        /\ last.raised = "none"
        /\ "sampling_metadata" \in DOMAIN tensor_dict
              <=> "sampling_metadata" \in DOMAIN last.pre
        /\ "selected_token_indices" \notin DOMAIN tensor_dict
        /\ DOMAIN tensor_dict = (DOMAIN last.pre) \ {"selected_token_indices"}
        /\ \A k \in DOMAIN tensor_dict : tensor_dict[k] = last.pre[k]

\* The sampling helper ran on a mapping that held None under
\* "selected_token_indices" and an earlier value under "sampling_metadata".
C17_Witness ==
    /\ last.op = "init_sampling"
    /\ "selected_token_indices" \in DOMAIN last.pre
    /\ last.pre["selected_token_indices"] = None
    /\ "sampling_metadata" \in DOMAIN last.pre
    /\ "virtual_engine" \in DOMAIN last.pre

\* ------------------------------------- order of attention and sampling
\* Two helper calls in a row on one mapping; an exception of the first one
\* ends the sequence.
AttnThenSampling(attn_backend, td) ==
    LET first == init_attn_metadata_from_tensor_dict(attn_backend, td)
    IN IF first.returned
       THEN init_sampling_metadata_from_tensor_dict(first.tensor_dict)
       ELSE first

SamplingThenAttn(attn_backend, td) ==
    LET first == init_sampling_metadata_from_tensor_dict(td)
    IN IF first.returned
       THEN init_attn_metadata_from_tensor_dict(attn_backend, first.tensor_dict)
       ELSE first

WellKnownNames == {"selected_token_indices", "sampling_metadata", "attn_metadata"}

TargetCls(op, cls) ==
    CASE op = "init_attn" -> get_metadata_cls(cls)
      [] op = "init_sampling" -> "SamplingMetadata"
      [] OTHER -> cls

\* A helper call that returned has (1) popped every entry in `taken`,
\* (2) built its record from exactly these entries, the other fields of the
\* record being left at None or 0, and (3) stored the record under its key.
PopBuildStore(taken) ==
    /\ \A f \in (DOMAIN taken) \ {OwnKey(last.op)} : f \notin DOMAIN tensor_dict
    /\ OwnKey(last.op) \in DOMAIN tensor_dict
    /\ LET made == tensor_dict[OwnKey(last.op)] IN
       /\ made.tag = "obj"
       /\ made.cls = TargetCls(last.op, last.cls)
       /\ DOMAIN taken \subseteq DOMAIN made.kw
       /\ \A f \in DOMAIN made.kw :
             IF f \in DOMAIN taken THEN made.kw[f] = taken[f]
             ELSE made.kw[f] \in {None, Val(0)}

\* Attention, sampling and frozen extraction in this order on one mapping.
Staged(attn_backend, frozen_model_input_cls, td) ==
    LET attn == init_attn_metadata_from_tensor_dict(attn_backend, td)
        sampling == init_sampling_metadata_from_tensor_dict(attn.tensor_dict)
        frozen == init_frozen_model_input_from_tensor_dict(frozen_model_input_cls,
                                                           sampling.tensor_dict)
    IN [attn |-> attn, sampling |-> sampling, frozen |-> frozen]

\* When the frozen helper runs after the other two and its class declares
\* attn_metadata and sampling_metadata, its record holds the records they
\* stored.
FrozenHoldsEarlierRecords ==
    /\ (last.op = "init_frozen" /\ last.returned) =>
          \A f \in {"attn_metadata", "sampling_metadata"}
                    \cap Range(frozen_fields(last.cls)) :
              DictGet(last.pre, f) /= None =>
                  tensor_dict["frozen_model_input"].kw[f] = last.pre[f]
    /\ (last.op = "init_attn" /\ last.returned) =>
          \A cls \in FrozenClasses :
              LET run == Staged(last.cls, cls, last.pre)
                  declared == Range(frozen_fields(cls))
              IN (run.attn.tensor_dict = tensor_dict /\ run.frozen.returned) =>
                    LET kw == run.frozen.tensor_dict["frozen_model_input"].kw IN
                    /\ "attn_metadata" \in declared =>
                          kw["attn_metadata"] = tensor_dict["attn_metadata"]
                    /\ ("sampling_metadata" \in declared
                         /\ DictGet(last.pre, "selected_token_indices") /= None) =>
                          kw["sampling_metadata"]
                              = run.sampling.tensor_dict["sampling_metadata"]

\* C13 (as claimed): each of the three extraction helpers pops the entry of
\* every declared field of its target type that is in the mapping with a
\* value other than None, builds the record from exactly those entries, and
\* stores it under its well-known key; so the frozen record holds the
\* records the earlier stages built.
C13_EveryHelperPopsBuildsStores ==
    /\ (last.op \in InitOps /\ last.returned) =>
          PopBuildStore(NonNone(Restrict(last.pre, Declared(last.op, last.cls))))
    /\ FrozenHoldsEarlierRecords

\* C13 (amended): the attention and the frozen helper do so for every
\* declared field; the sampling helper pops and uses the
\* "selected_token_indices" entry only, and stores a record only when that
\* entry is there with a value other than None; the frozen record holds the
\* records the earlier stages stored.
C13_StagedExtraction ==
    /\ (last.op \in {"init_attn", "init_frozen"} /\ last.returned) =>
          PopBuildStore(NonNone(Restrict(last.pre, Declared(last.op, last.cls))))
    /\ (last.op = "init_sampling"
        /\ DictGet(last.pre, "selected_token_indices") /= None) =>
          /\ last.returned
          /\ PopBuildStore(Restrict(last.pre, {"selected_token_indices"}))
    /\ FrozenHoldsEarlierRecords

\* The frozen helper returned on a mapping in which the attention and the
\* sampling helper had each stored a record.
C13_Witness ==
    /\ last.op = "init_frozen"
    /\ last.returned
    /\ DictGet(last.pre, "attn_metadata").tag = "obj"
    /\ DictGet(last.pre, "sampling_metadata").tag = "obj"
    /\ tensor_dict["frozen_model_input"].kw["attn_metadata"].cls = "FlashAttnMetadata"
    /\ tensor_dict["frozen_model_input"].kw["sampling_metadata"].cls = "SamplingMetadata"

\* --------------------------------------------- consumption of declared keys
\* C16: the attention and the frozen helper return the very mapping they
\* were passed, and after a return no declared field name is a key of it,
\* the names whose entry held None included (such an entry is removed and
\* not passed to the constructor); the one exception is a declared field
\* named like the helper's own key, which is a key again and holds the new
\* record.
C16_DeclaredKeysConsumedInPlace ==
    (last.op \in {"init_attn", "init_frozen"} /\ last.returned) =>
        LET declared == Declared(last.op, last.cls)
            own == OwnKey(last.op)
        IN /\ last.ret = TensorDictArg
           /\ \A f \in declared \ {own} : f \notin DOMAIN tensor_dict
           /\ own \in DOMAIN tensor_dict
           /\ tensor_dict[own].tag = "obj"
           /\ tensor_dict[own].cls = TargetCls(last.op, last.cls)
           /\ \A f \in declared :
                 IF DictGet(last.pre, f) = None
                 THEN f \notin DOMAIN tensor_dict[own].kw
                 ELSE tensor_dict[own].kw[f] = last.pre[f]

\* The attention helper returned on a mapping that held None under one of
\* its declared field names.
C16_Witness ==
    /\ last.op = "init_attn"
    /\ last.returned
    /\ "block_tables" \in DOMAIN last.pre
    /\ last.pre["block_tables"] = None
    /\ "block_tables" \notin DOMAIN tensor_dict

\* The frozen helper returned for a class that declares a field named
\* frozen_model_input, on a mapping that held a frozen record.
OwnKeyDeclaredCase ==
    /\ last.op = "init_frozen"
    /\ last.returned
    /\ "frozen_model_input" \in Declared(last.op, last.cls)
    /\ tensor_dict["frozen_model_input"].kw["frozen_model_input"].cls = "ModelInput"

\* ----------------------------------------------------- the frozen section
\* C12: once the frozen helper has built a record, its fields keep the values
\* the constructor gave them through every later step, whatever is stored
\* in or popped from the mapping it was built from; an assignment to a field
\* of the record raises and changes nothing.
C12_FrozenNeverMutated ==
    /\ held /= None =>
          /\ held.cls = built.cls
          /\ DOMAIN held.kw = DOMAIN built.kw
          /\ \A f \in DOMAIN built.kw : held.kw[f] = built.kw[f]
    /\ last.op = "setattr" =>
          /\ last.raised = "FrozenInstanceError"
          /\ ~last.returned
          /\ \A k \in DOMAIN last.pre :
                k \in DOMAIN tensor_dict /\ tensor_dict[k] = last.pre[k]

\* After a step stored the per-step entry of the mapping, a caller tried to
\* assign the field input_tokens of the frozen record.
C12_Witness ==
    /\ last.op = "setattr"
    /\ last.cls = "input_tokens"
    /\ DictGet(last.pre, "current_step") = Val(1)
    /\ last.prev.op = "none"
    /\ held.cls = "ModelInput"
    /\ held.kw["input_tokens"] = Val(1)
    /\ "attn_metadata" \in DOMAIN held.kw

====
